---- MODULE Spec2Model ----
(***************************************************************************)
(* Subdomain enumerator of src/information_scrp/dome/Subenum.py:           *)
(* candidate generation, wildcard detection, the worker pool driven by     *)
(* ThreadPoolExecutor.map, the HTTP prober and the final sort.             *)
(*                                                                         *)
(* A Python str is a sequence of one-character strings; str comparison is  *)
(* by code point (Code).  Optional[T] is <<>> for None and <<v>> for a     *)
(* value v.  The outcome of a call that may raise is a record              *)
(* [exc |-> BOOLEAN, val |-> ...].                                         *)
(***************************************************************************)
EXTENDS Integers, Sequences, FiniteSets, TLC

\* ------------------------------------------------------------------ bounds
\* longest word list handed to enumerate_subdomains
MaxWords == 2
\* last instant of the wall clock (SpecClock)
MaxTime == 1

\* ------------------------------------------------------- program constants
WildcardTries == 3
LabelLen == 16
MinWorkers == 4
DefaultThreads == 200
HttpPort == 80
HttpsPort == 443
StatusOK == 200
\* timeouts in tenths of a second: enumerate_subdomains, probe_http, from_crtsh
DefaultTimeout == 25
ProbeTimeout == 30
CrtTimeout == 80
ExitOK == 0
ExitInterrupted == 130
\* the status of an interpreter that ends on an exception nothing caught
ExitUncaught == 1

\* ----------------------------------------------------------------- strings
Chars == {" ", "\n", "#", ",", ".", "0", "1", "3", "4", "8", "9", "A", "B", "a", "b", "c", "d", "e",
          "i", "p", "v", "w", "x", "y"}

Code ==
  [c \in Chars |->
     CASE c = "\n" -> 10 [] c = " " -> 32 [] c = "#" -> 35 [] c = "," -> 44 [] c = "." -> 46
       [] c = "0" -> 48 [] c = "1" -> 49 [] c = "3" -> 51 [] c = "4" -> 52
       [] c = "8" -> 56 [] c = "9" -> 57
       [] c = "A" -> 65 [] c = "B" -> 66
       [] c = "a" -> 97 [] c = "b" -> 98 [] c = "c" -> 99 [] c = "d" -> 100
       [] c = "e" -> 101 [] c = "i" -> 105 [] c = "p" -> 112 [] c = "v" -> 118
       [] c = "w" -> 119 [] c = "x" -> 120 [] c = "y" -> 121]

None == <<>>

Some(v) == <<v>>

Range(s) == {s[i] : i \in DOMAIN s}

Max(a, b) == IF a >= b THEN a ELSE b

\* s < t for two str values
RECURSIVE StrLess(_, _)
StrLess(s, t) ==
  IF t = <<>> THEN FALSE
  ELSE IF s = <<>> THEN TRUE
  ELSE IF Head(s) = Head(t) THEN StrLess(Tail(s), Tail(t))
  ELSE Code[Head(s)] < Code[Head(t)]

StrLeq(s, t) == s = t \/ StrLess(s, t)

IsSpace(c) == c \in {" ", "\n"}

RECURSIVE lstrip(_)
lstrip(s) == IF s # <<>> /\ IsSpace(Head(s)) THEN lstrip(Tail(s)) ELSE s

RECURSIVE rstrip(_)
rstrip(s) ==
  IF s # <<>> /\ IsSpace(s[Len(s)]) THEN rstrip(SubSeq(s, 1, Len(s) - 1)) ELSE s

\* str.strip()
strip(s) == rstrip(lstrip(s))

LowerChar(c) == IF c = "A" THEN "a" ELSE IF c = "B" THEN "b" ELSE c

\* str.lower()
lower(s) == [i \in 1..Len(s) |-> LowerChar(s[i])]

\* str.endswith(suffix)
endswith(s, suffix) ==
  /\ Len(suffix) <= Len(s)
  /\ SubSeq(s, Len(s) - Len(suffix) + 1, Len(s)) = suffix

\* str.split(sep) for a one-character separator
RECURSIVE SplitLoop(_, _, _)
SplitLoop(s, sep, cur) ==
  IF s = <<>> THEN <<cur>>
  ELSE IF Head(s) = sep THEN <<cur>> \o SplitLoop(Tail(s), sep, <<>>)
  ELSE SplitLoop(Tail(s), sep, Append(cur, Head(s)))

split(s, sep) == SplitLoop(s, sep, <<>>)

\* sorted(S) for a set of str
RECURSIVE sorted(_)
sorted(S) ==
  IF S = {} THEN <<>>
  ELSE LET m == CHOOSE x \in S : \A y \in S : StrLeq(x, y)
       IN <<m>> \o sorted(S \ {m})

\* f"{label}.{domain}"
FQDN(label, dom) == label \o <<".">> \o dom

\* -------------------------------------------------------------- candidates
RECURSIVE DedupeLoop(_, _, _)
DedupeLoop(seq, s, out) ==
  IF seq = <<>> THEN out
  ELSE IF Head(seq) \notin s
       THEN DedupeLoop(Tail(seq), s \cup {Head(seq)}, Append(out, Head(seq)))
       ELSE DedupeLoop(Tail(seq), s, out)

dedupe_none(seq) == seq

dedupe(seq) == DedupeLoop(seq, {}, <<>>)

\* [f"{w.strip().lower()}.{domain}" for w in words if w.strip()]
RECURSIVE WordCandidates(_, _)
WordCandidates(dom, ws) ==
  IF ws = <<>> THEN <<>>
  ELSE IF strip(Head(ws)) # <<>>
       THEN <<FQDN(lower(strip(Head(ws))), dom)>> \o WordCandidates(dom, Tail(ws))
       ELSE WordCandidates(dom, Tail(ws))


\* ------------------------------------------------------------------- state
VARIABLES
  words,          \* enumerate_subdomains argument: the word list
  threads,        \* argument: requested thread count
  use_passive,    \* argument: query crt.sh
  probe,          \* argument: probe HTTP/HTTPS
  ports,          \* argument, then the local of line 174
  dns,            \* environment: address infos the system resolver holds per name
  accepts_timeout,\* environment: getaddrinfo takes the timeout keyword of line 88
  requests,       \* module global of lines 40-43: None when the import failed
  pc,             \* position of the thread running enumerate_subdomains
  candidates,     \* local of lines 177-183
  crt_resp,       \* the crt.sh response from_crtsh received, None before
  wildcard_ips,   \* wc_ips of detect_wildcard, then the local of line 186
  wc_try,         \* iterations of the loop of line 109 done so far
  findings,       \* local of line 188
  task,           \* one entry per future submitted by ex.map
  next_result,    \* index of the next future the result iterator waits for
  now,            \* wall clock
  sock_timeout,   \* the process-wide default of socket.setdefaulttimeout
  sock_old,       \* old of resolver_timeout, line 98
  wc_hosts,       \* names detect_wildcard has resolved in the call under way
  wordlist,       \* args.wordlist and the file it names
  output,         \* args.output, args.json, args.csv and the path's state
  mpc,            \* position of the thread running main
  exit_code,      \* the status the process exited with, None while it runs
  out_file,       \* what this run wrote to args.output, None if nothing
  irq,            \* where main was when KeyboardInterrupt was raised, None if never
  ports_arg,      \* args.ports, the text given to --ports
  console         \* what main has printed, one entry per kind of message

inputs == <<words, threads, use_passive, probe>>

env == <<dns, accepts_timeout, requests>>

sock == <<sock_timeout, sock_old>>

cli == <<wordlist, output, mpc, exit_code, out_file, irq, ports_arg, console>>

vars ==
  <<words, threads, use_passive, probe, ports, dns, accepts_timeout, requests,
    pc, candidates, crt_resp, wildcard_ips, wc_try, findings, task, next_result, now,
    sock_timeout, sock_old, wc_hosts, wordlist, output, mpc, exit_code, out_file, irq,
    ports_arg, console>>

\* ------------------------------------------------------------ sample values
domain == <<"d">>

\* the timeout argument of enumerate_subdomains
timeout == DefaultTimeout

IP9 == <<"9">>

IP10 == <<"1", "0">>

Words == {<<"b">>, <<" ", "A">>}

\* names a candidate can be: from Words, or from the crt.sh samples
CandHosts == {<<"a", ".", "d">>, <<"b", ".", "d">>, <<"c", ".", "d">>}

\* answers of the resolver for a candidate: none, one address, or an unsorted
\* list with a repeated address
InfoLists == {<<>>, <<IP9>>, <<IP9, IP10, IP9>>}

\* labels random.choice can draw at line 110
LabelX == [i \in 1..LabelLen |-> "x"]

LabelY == [i \in 1..LabelLen |-> "y"]

RandomLabels == {LabelX, LabelY}

\* answers for a random label: no wildcard record, or a wildcard record whose
\* address pool gives IP9 for one label and IP10 for the other
WildMaps ==
  { (FQDN(LabelX, domain) :> x) @@ (FQDN(LabelY, domain) :> y) :
      x \in {<<>>, <<IP9>>}, y \in {<<>>, <<IP10>>} }

Ret(v) == [exc |-> FALSE, val |-> v]

Exc == [exc |-> TRUE, val |-> <<>>]

\* ----------------------------------------------------------------- resolver
\* socket.getaddrinfo(host, None, **kw): TypeError for a keyword it does not
\* take, gaierror for a name without an answer, else the infos.  The
\* getaddrinfo of the standard library takes no timeout keyword, so with it
\* (accepts_timeout = FALSE) the call of line 88 raises for every host; with
\* accepts_timeout = TRUE the resolver answers, as the mock resolver of the
\* specification's scenarios does.
getaddrinfo(host, kw) ==
  IF "timeout" \in kw /\ ~accepts_timeout THEN Exc
  ELSE IF host \notin DOMAIN dns \/ dns[host] = <<>> THEN Exc
  ELSE Ret(dns[host])

resolve_host_nocatch(host) ==
  LET r == getaddrinfo(host, {"proto", "timeout"})
  IN IF r.exc THEN Exc ELSE Ret(sorted(Range(r.val)))

resolve_host_unsorted(host) ==
  LET r == getaddrinfo(host, {"proto", "timeout"})
  IN IF r.exc THEN Ret(<<>>) ELSE Ret(r.val)

resolve_host(host) ==
  LET r == getaddrinfo(host, {"proto", "timeout"})
  IN IF r.exc THEN Ret(<<>>) ELSE Ret(sorted(Range(r.val)))

\* ------------------------------------------------------------ passive source
RECURSIVE CrtNames_nofilter(_, _, _)
CrtNames_nofilter(dom, rows, names) ==
  IF rows = <<>> THEN Ret(names)
  ELSE IF Head(rows) = None THEN Exc
  ELSE LET ns == split(Head(rows)[1], "\n")
           ok == {lower(strip(ns[i])) : i \in DOMAIN ns}
       IN CrtNames_nofilter(dom, Tail(rows), names \cup ok)

RECURSIVE CrtNames_partial(_, _, _)
CrtNames_partial(dom, rows, names) ==
  IF rows = <<>> THEN Ret(names)
  ELSE IF Head(rows) = None THEN Ret(names)
  ELSE LET ns == split(Head(rows)[1], "\n")
           ok == {lower(strip(ns[i])) : i \in DOMAIN ns}
           keep == {n \in ok : endswith(n, <<".">> \o dom) \/ n = dom}
       IN CrtNames_partial(dom, Tail(rows), names \cup keep)

RECURSIVE CrtNames_skip(_, _, _)
CrtNames_skip(dom, rows, names) ==
  IF rows = <<>> THEN Ret(names)
  ELSE IF Head(rows) = None THEN CrtNames_skip(dom, Tail(rows), names)
  ELSE LET ns == split(Head(rows)[1], "\n")
           ok == {lower(strip(ns[i])) : i \in DOMAIN ns}
           keep == {n \in ok : endswith(n, <<".">> \o dom) \/ n = dom}
       IN CrtNames_skip(dom, Tail(rows), names \cup keep)

\* one row of the JSON array: None when row.get or name_value.split raises
RECURSIVE CrtNames(_, _, _)
CrtNames(dom, rows, names) ==
  IF rows = <<>> THEN Ret(names)
  ELSE IF Head(rows) = None THEN Exc
  ELSE LET ns == split(Head(rows)[1], "\n")
           ok == {lower(strip(ns[i])) : i \in DOMAIN ns}
           keep == {n \in ok : endswith(n, <<".">> \o dom) \/ n = dom}
       IN CrtNames(dom, Tail(rows), names \cup keep)

from_crtsh_leaky(dom, resp) ==
  IF requests = None THEN <<>>
  ELSE IF resp.exc THEN <<>>
  ELSE IF resp.json = None THEN <<>>
  ELSE LET r == CrtNames(dom, resp.json[1], {})
       IN IF r.exc THEN <<>> ELSE sorted(r.val)

from_crtsh(dom, resp) ==
  IF requests = None THEN <<>>
  ELSE IF resp.exc THEN <<>>
  ELSE IF resp.status # StatusOK THEN <<>>
  ELSE IF resp.json = None THEN <<>>
  ELSE LET r == CrtNames(dom, resp.json[1], {})
       IN IF r.exc THEN <<>> ELSE sorted(r.val)

\* ------------------------------------------------------------------ prober
Protos == {"https", "http"}

\* what requests.head does per (protocol, port): None when it raises, else
\* the status code
HttpEnvs(ps) == [Protos \X Range(ps) -> {None, Some(StatusOK)}]

Head1(res, resp, proto, p) ==
  IF res = None /\ resp[<<proto, p>>] # None
  THEN <<TRUE, resp[<<proto, p>>][1]>>
  ELSE res

RECURSIVE ProbeLoop(_, _, _, _)
ProbeLoop(ps, http_res, https_res, resp) ==
  IF ps = <<>> THEN <<http_res, https_res>>
  ELSE LET s == Head1(https_res, resp, "https", Head(ps))
           h == Head1(http_res, resp, "http", Head(ps))
       IN IF h # None /\ s # None THEN <<h, s>>
          ELSE ProbeLoop(Tail(ps), h, s, resp)

probe_http(host, ps, resp) ==
  IF requests = None THEN <<None, None>> ELSE ProbeLoop(ps, None, None, resp)

\* one request of probe_http: the protocol, the index in ports, the port
Request(proto, k, p) == [proto |-> proto, k |-> k, port |-> p]

RECURSIVE ProbeTrace_http_first(_, _, _, _, _, _)
ProbeTrace_http_first(ps, k, http_res, https_res, resp, log) ==
  IF k > Len(ps) THEN [http |-> http_res, https |-> https_res, log |-> log]
  ELSE LET log1 == IF http_res = None
                   THEN Append(log, Request("http", k, ps[k])) ELSE log
           h == Head1(http_res, resp, "http", ps[k])
           log2 == IF https_res = None
                   THEN Append(log1, Request("https", k, ps[k])) ELSE log1
           s == Head1(https_res, resp, "https", ps[k])
       IN IF h # None /\ s # None THEN [http |-> h, https |-> s, log |-> log2]
          ELSE ProbeTrace_http_first(ps, k + 1, h, s, resp, log2)

\* the loop of lines 148-160 from port index k on, with the requests.head
\* calls it makes appended to log
RECURSIVE ProbeTrace(_, _, _, _, _, _)
ProbeTrace(ps, k, http_res, https_res, resp, log) ==
  IF k > Len(ps) THEN [http |-> http_res, https |-> https_res, log |-> log]
  ELSE LET log1 == IF https_res = None
                   THEN Append(log, Request("https", k, ps[k])) ELSE log
           s == Head1(https_res, resp, "https", ps[k])
           log2 == IF http_res = None
                   THEN Append(log1, Request("http", k, ps[k])) ELSE log1
           h == Head1(http_res, resp, "http", ps[k])
       IN IF h # None /\ s # None THEN [http |-> h, https |-> s, log |-> log2]
          ELSE ProbeTrace(ps, k + 1, h, s, resp, log2)

\* ------------------------------------------------------------------ worker
Finding(host, addrs, is_wc) ==
  [host |-> host, addresses |-> addrs, is_wildcard |-> is_wc,
   http_open |-> None, http_status |-> None,
   https_open |-> None, https_status |-> None]

IsWildcard_anyhit(addrs, wips) == wips # {} /\ Range(addrs) \cap wips # {}

IsWildcard_equal(addrs, wips) == wips # {} /\ Range(addrs) = wips

\* lines 195-198
IsWildcard(addrs, wips) == wips # {} /\ Range(addrs) \subseteq wips

ShouldProbe_always(is_wc, probe_flag) == ~is_wc

ShouldProbe_wildcards(is_wc, probe_flag) == probe_flag

\* line 200
ShouldProbe(is_wc, probe_flag) == (~is_wc) /\ probe_flag

WithProbe_false(f, pr) ==
  [f EXCEPT
     !.http_open = Some(pr[1] # None),
     !.http_status = IF pr[1] # None THEN Some(pr[1][2]) ELSE @,
     !.https_open = Some(pr[2] # None),
     !.https_status = IF pr[2] # None THEN Some(pr[2][2]) ELSE @]

\* lines 202-205
WithProbe(f, pr) ==
  [f EXCEPT
     !.http_open = IF pr[1] # None THEN Some(pr[1][1]) ELSE @,
     !.http_status = IF pr[1] # None THEN Some(pr[1][2]) ELSE @,
     !.https_open = IF pr[2] # None THEN Some(pr[2][1]) ELSE @,
     !.https_status = IF pr[2] # None THEN Some(pr[2][2]) ELSE @]

\* ------------------------------------------------------------------- sort
RECURSIVE InsertByHost(_, _)
InsertByHost(f, s) ==
  IF s = <<>> THEN <<f>>
  ELSE IF StrLess(f.host, Head(s).host) THEN <<f>> \o s
  ELSE <<Head(s)>> \o InsertByHost(f, Tail(s))

SortByHost_none(fs) == fs

\* list.sort(key=lambda x: x.host): stable
RECURSIVE SortByHost(_)
SortByHost(fs) ==
  IF fs = <<>> THEN <<>>
  ELSE InsertByHost(fs[Len(fs)], SortByHost(SubSeq(fs, 1, Len(fs) - 1)))

PoolSize_offbyone(n) == Max(MinWorkers, n) + 1

PoolSize_min(n) == IF n <= MinWorkers THEN n ELSE MinWorkers

\* max_workers of line 208
PoolSize(n) == Max(MinWorkers, n)


\* ------------------------------------------------------------ initial state
BoundedSeq(S, n) == UNION {[1..k -> S] : k \in 0..n}

PortLists == {<<HttpsPort>>}

\* crt.sh answers: requests.get raises; a non-200 status; a body r.json() cannot
\* parse; an array with a row that has no name_value string; an array of rows
CrtResponses ==
  { [exc |-> TRUE, status |-> 0, json |-> None],
    [exc |-> FALSE, status |-> StatusOK, json |-> None],
    [exc |-> FALSE, status |-> StatusOK,
     json |-> Some(<<Some(<<"c", ".", "d">>), None>>)],
    [exc |-> FALSE, status |-> 500, json |-> Some(<<Some(<<"c", ".", "d">>)>>)],
    [exc |-> FALSE, status |-> StatusOK,
     json |-> Some(<<Some(<<"B", ".", "d", "\n", "c", ".", "d">>),
                     Some(<<"x", ".", "e">>)>>)] }

DnsMaps == {c @@ r : c \in [CandHosts -> InfoLists], r \in WildMaps}

\* every name has an address: the zone seen by a resolver that cannot look it up
FullDns == [h \in CandHosts |-> <<IP9>>] @@
           (FQDN(LabelX, domain) :> <<IP9>>) @@ (FQDN(LabelY, domain) :> <<IP10>>)

\* enumerate_subdomains called as a function: main is not running
Library ==
  /\ wordlist = None
  /\ output = None
  /\ mpc = "lib"
  /\ exit_code = None
  /\ out_file = None
  /\ irq = None
  /\ ports_arg = None
  /\ console = <<>>

InitScan ==
  /\ pc = "start"
  /\ candidates = <<>>
  /\ crt_resp = None
  /\ wildcard_ips = {}
  /\ wc_try = 0
  /\ findings = <<>>
  /\ task = <<>>
  /\ next_result = 1
  /\ now = 0
  /\ sock_timeout = None
  /\ sock_old = None
  /\ wc_hosts = <<>>
  /\ Library

Init ==
  /\ words \in BoundedSeq(Words, MaxWords)
  /\ threads = DefaultThreads
  /\ use_passive \in BOOLEAN
  /\ probe \in BOOLEAN
  /\ ports \in PortLists
  /\ accepts_timeout \in BOOLEAN
  /\ dns \in IF accepts_timeout THEN DnsMaps ELSE {FullDns}
  /\ requests \in {None, Some("requests")}
  /\ InitScan

\* ----------------------------------------------------------------- actions
\* lines 174-178
BuildCandidates ==
  /\ pc = "start"
  /\ ports' = IF ports = <<>> THEN <<HttpPort, HttpsPort>> ELSE ports
  /\ candidates' = dedupe(WordCandidates(domain, words))
  /\ pc' = "passive"
  /\ UNCHANGED <<inputs, env, cli, sock, wc_hosts, crt_resp, wildcard_ips, wc_try, findings, task,
                 next_result, now>>

\* line 181, use_passive false
SkipPassive ==
  /\ pc = "passive"
  /\ ~use_passive
  /\ pc' = "wildcard"
  /\ UNCHANGED <<inputs, env, cli, sock, wc_hosts, ports, candidates, crt_resp, wildcard_ips, wc_try,
                 findings, task, next_result, now>>

\* the responses crt.sh can give; none is asked for without the requests module
CrtAnswers == IF requests = None THEN {None} ELSE {Some(r) : r \in CrtResponses}

Passive(resp) == IF resp = None THEN <<>> ELSE from_crtsh(domain, resp[1])

\* lines 181-183
QueryPassive ==
  /\ pc = "passive"
  /\ use_passive
  /\ \E resp \in CrtAnswers :
       /\ crt_resp' = resp
       /\ candidates' = dedupe(candidates \o Passive(resp))
  /\ pc' = "wildcard"
  /\ UNCHANGED <<inputs, env, cli, sock, wc_hosts, ports, wildcard_ips, wc_try, findings, task,
                 next_result, now>>

\* line 186 calls detect_wildcard; lines 98-99: the with statement of line 108
\* saves the process default and sets it to timeout
DetectWildcardEnter ==
  /\ pc = "wildcard"
  /\ sock_old' = sock_timeout
  /\ sock_timeout' = Some(timeout)
  /\ pc' = "wc_loop"
  /\ UNCHANGED <<inputs, env, cli, ports, candidates, crt_resp, wildcard_ips,
                 wc_try, findings, task, next_result, now, wc_hosts>>

Accumulate_last(wc, addrs) == Range(addrs)

\* lines 113-114
Accumulate(wc, addrs) == wc \cup Range(addrs)

\* line 111
WildcardHost(label) == FQDN(label, domain)

\* one iteration of the loop of lines 109-114
DetectWildcardTry ==
  /\ pc = "wc_loop"
  /\ wc_try < WildcardTries
  /\ \E label \in RandomLabels :
       /\ wildcard_ips' =
            Accumulate(wildcard_ips, resolve_host(WildcardHost(label)).val)
       /\ wc_hosts' = Append(wc_hosts, WildcardHost(label))
  /\ wc_try' = wc_try + 1
  /\ UNCHANGED <<inputs, env, cli, sock, ports, pc, candidates, crt_resp,
                 findings, task, next_result, now>>

\* the loop of line 109 has ended
WildcardLoopDone == pc = "wc_loop" /\ wc_try = WildcardTries

DetectWildcardExit_norestore ==
  /\ WildcardLoopDone
  /\ wc_hosts' = <<>>
  /\ pc' = "pool"
  /\ UNCHANGED <<inputs, env, cli, sock, ports, candidates, crt_resp,
                 wildcard_ips, wc_try, findings, task, next_result, now>>

\* lines 101-103 and 115: the with block is left, the saved default is set
\* again, wc_ips is returned
DetectWildcardExit ==
  /\ WildcardLoopDone
  /\ sock_timeout' = sock_old
  /\ wc_hosts' = <<>>
  /\ pc' = "pool"
  /\ UNCHANGED <<inputs, env, cli, sock_old, ports, candidates, crt_resp,
                 wildcard_ips, wc_try, findings, task, next_result, now>>

\* the with statement of line 208 entered, ex.map called: one future per
\* candidate is submitted before the first result is awaited
Submit ==
  /\ pc = "pool"
  /\ task' = [i \in 1..Len(candidates) |->
                [st |-> "queued", res |-> None, exc |-> FALSE, resp |-> None,
                 t0 |-> 0, tmo |-> None]]
  /\ pc' = "collect"
  /\ UNCHANGED <<inputs, env, cli, sock, wc_hosts, ports, candidates, crt_resp,
                 wildcard_ips, wc_try, findings, next_result, now>>

InFlight == {i \in DOMAIN task : task[i].st \in {"resolving", "probing"}}

\* a pool thread takes the oldest queued work item; line 191 is called
Dequeue(i) ==
  /\ pc = "collect"
  /\ task[i].st = "queued"
  /\ \A j \in 1..(i - 1) : task[j].st # "queued"
  /\ Cardinality(InFlight) < PoolSize(threads)
  /\ task' = [task EXCEPT ![i].st = "resolving", ![i].t0 = now,
                          ![i].tmo = Some(timeout)]
  /\ UNCHANGED <<inputs, env, cli, sock, wc_hosts, ports, pc, candidates, crt_resp, wildcard_ips,
                 wc_try, findings, next_result, now>>

ResolveReturn_append(i) ==
  /\ task[i].st = "resolving"
  /\ LET r == resolve_host(candidates[i])
         wc == IsWildcard(r.val, wildcard_ips)
         f == Finding(candidates[i], r.val, wc)
     IN IF r.val = <<>>
        THEN /\ task' = [task EXCEPT ![i].st = "done"]
             /\ findings' = findings
        ELSE /\ task' = [task EXCEPT ![i].st = "done", ![i].res = Some(f)]
             /\ findings' = Append(findings, f)
  /\ UNCHANGED <<inputs, env, cli, sock, wc_hosts, ports, pc, candidates,
                 crt_resp, wildcard_ips, wc_try, next_result, now>>

\* lines 191-200: resolve_host returns, the filter runs, probe_http is called
ResolveReturn(i) ==
  /\ task[i].st = "resolving"
  /\ LET r == resolve_host(candidates[i])
         wc == IsWildcard(r.val, wildcard_ips)
         f == Finding(candidates[i], r.val, wc)
     IN task' =
          IF r.exc THEN [task EXCEPT ![i].st = "done", ![i].exc = TRUE]
          ELSE IF r.val = <<>> THEN [task EXCEPT ![i].st = "done"]
          ELSE IF ShouldProbe(wc, probe)
               THEN [task EXCEPT ![i].st = "probing", ![i].res = Some(f),
                                 ![i].tmo = Some(ProbeTimeout)]
               ELSE [task EXCEPT ![i].st = "done", ![i].res = Some(f)]
  /\ UNCHANGED <<inputs, env, cli, sock, wc_hosts, ports, pc, candidates, crt_resp, wildcard_ips,
                 wc_try, findings, next_result, now>>

\* what the web server of one host answers; no request without requests
ProbeAnswers == IF requests = None THEN {None} ELSE {Some(e) : e \in HttpEnvs(ports)}

Probed(host, ps, resp) ==
  IF resp = None THEN <<None, None>> ELSE probe_http(host, ps, resp[1])

\* lines 201-206: probe_http returns, the worker returns its Finding
ProbeReturn(i) ==
  /\ task[i].st = "probing"
  /\ \E resp \in ProbeAnswers :
       task' = [task EXCEPT
                  ![i].st = "done",
                  ![i].resp = resp,
                  ![i].res = Some(WithProbe(@[1], Probed(candidates[i], ports, resp)))]
  /\ UNCHANGED <<inputs, env, cli, sock, wc_hosts, ports, pc, candidates, crt_resp, wildcard_ips,
                 wc_try, findings, next_result, now>>

Keep_all(res) == res # None

\* line 210
Keep(res) == res # None /\ ~res[1].is_wildcard

Collect_nowait ==
  /\ pc = "collect"
  /\ next_result <= Len(task)
  /\ findings' = IF task[next_result].st = "done" /\ Keep(task[next_result].res)
                 THEN Append(findings, task[next_result].res[1])
                 ELSE findings
  /\ next_result' = next_result + 1
  /\ UNCHANGED <<inputs, env, cli, sock, wc_hosts, ports, pc, candidates,
                 crt_resp, wildcard_ips, wc_try, task, now>>

\* lines 209-211: the result iterator yields the next future's result, in
\* submission order; a worker's exception is raised again here
Collect ==
  /\ pc = "collect"
  /\ next_result <= Len(task)
  /\ task[next_result].st = "done"
  /\ IF task[next_result].exc
     THEN pc' = "aborted" /\ UNCHANGED <<findings, next_result>>
     ELSE /\ findings' = IF Keep(task[next_result].res)
                         THEN Append(findings, task[next_result].res[1])
                         ELSE findings
          /\ next_result' = next_result + 1
          /\ pc' = pc
  /\ UNCHANGED <<inputs, env, cli, sock, wc_hosts, ports, candidates, crt_resp, wildcard_ips, wc_try,
                 task, now>>

AllCollected_early == next_result >= Len(task)

AllCollected_deadline == next_result > Len(task) \/ now >= MaxTime

\* the loop of line 209 ends: the result iterator is exhausted
AllCollected == next_result > Len(task)

\* lines 214-215, after the with block has joined the pool
SortAndReturn ==
  /\ pc = "collect"
  /\ AllCollected
  /\ findings' = SortByHost(findings)
  /\ pc' = "done"
  /\ UNCHANGED <<inputs, env, cli, sock, wc_hosts, ports, candidates, crt_resp, wildcard_ips, wc_try,
                 task, next_result, now>>

\* time passes
Tick ==
  /\ now < MaxTime
  /\ now' = now + 1
  /\ UNCHANGED <<inputs, env, cli, sock, wc_hosts, ports, pc, candidates, crt_resp, wildcard_ips,
                 wc_try, findings, task, next_result>>

Next ==
  \/ BuildCandidates
  \/ SkipPassive
  \/ QueryPassive
  \/ DetectWildcardEnter
  \/ DetectWildcardTry
  \/ DetectWildcardExit
  \/ Submit
  \/ \E i \in DOMAIN task : Dequeue(i)
  \/ \E i \in DOMAIN task : ResolveReturn(i)
  \/ \E i \in DOMAIN task : ProbeReturn(i)
  \/ Collect
  \/ SortAndReturn

Spec == Init /\ [][Next]_vars


\* ------------------------------------------- the prober over lists of ports
MaxPorts == 2

\* every name of the domain has the address 9; no random label resolves
ProbeDns ==
  [h \in CandHosts |-> <<IP9>>] @@
  (FQDN(LabelX, domain) :> <<>>) @@ (FQDN(LabelY, domain) :> <<>>)

InitProbe ==
  /\ words = << <<"b">> >>
  /\ threads = DefaultThreads
  /\ use_passive \in BOOLEAN
  /\ probe = TRUE
  /\ ports \in BoundedSeq({HttpPort, HttpsPort}, MaxPorts)
  /\ accepts_timeout = TRUE
  /\ dns = ProbeDns
  /\ requests \in {None, Some("requests")}
  /\ InitScan

SpecProbe == InitProbe /\ [][Next]_vars

\* --------------------------------------------------------------------- main
\* the head of the built-in list of line 46
DEFAULT_WORDS == << <<"w", "w", "w">>, <<"a", "p", "i">>, <<"d", "e", "v">> >>

startswith(s, prefix) ==
  Len(s) >= Len(prefix) /\ SubSeq(s, 1, Len(prefix)) = prefix

KeepLine_nocomment(line) == strip(line) # <<>>

\* the condition of line 222
KeepLine(line) == strip(line) # <<>> /\ ~startswith(line, <<"#">>)

\* the comprehension of line 222 over the lines of the file
RECURSIVE FileWords(_)
FileWords(lines) ==
  IF lines = <<>> THEN <<>>
  ELSE IF KeepLine(Head(lines))
       THEN <<strip(Head(lines))>> \o FileWords(Tail(lines))
       ELSE FileWords(Tail(lines))

\* lines 219-224; open raises on a file the process may not read
load_words(wl) ==
  IF wl # None /\ wl[1].isfile
  THEN IF wl[1].readable THEN Ret(FileWords(wl[1].lines)) ELSE Exc
  ELSE Ret(DEFAULT_WORDS)

\* line 270; an exception leaves main and ends the process, line 326
MainLoadWords ==
  /\ mpc = "load"
  /\ LET r == load_words(wordlist)
     IN IF r.exc
        THEN /\ mpc' = "exited"
             /\ exit_code' = Some(ExitUncaught)
             /\ words' = words
        ELSE /\ mpc' = "call"
             /\ exit_code' = exit_code
             /\ words' = r.val
  /\ UNCHANGED <<threads, use_passive, probe, env, sock, wc_hosts, ports, pc,
                 candidates, crt_resp, wildcard_ips, wc_try, findings, task,
                 next_result, now, wordlist, output, out_file, irq, ports_arg,
                 console>>

Digits == {"0", "1", "3", "4", "8", "9"}

\* str.isdigit
isdigit(s) == s # <<>> /\ \A k \in DOMAIN s : s[k] \in Digits

\* int(s) for a str of digits
RECURSIVE IntOf(_)
IntOf(s) ==
  IF s = <<>> THEN 0
  ELSE 10 * IntOf(SubSeq(s, 1, Len(s) - 1)) + (Code[s[Len(s)]] - Code["0"])

\* the comprehension of line 272 over the pieces between commas; int accepts
\* the white space isdigit was tested without
RECURSIVE PortsOf(_)
PortsOf(pieces) ==
  IF pieces = <<>> THEN <<>>
  ELSE IF isdigit(strip(Head(pieces)))
       THEN <<IntOf(strip(Head(pieces)))>> \o PortsOf(Tail(pieces))
       ELSE PortsOf(Tail(pieces))

\* line 272
ParsePorts(text) == PortsOf(split(text, ","))

\* lines 271-283: enumerate_subdomains is called with the ports of line 272
MainCall ==
  /\ mpc = "call"
  /\ pc = "idle"
  /\ ports' = ParsePorts(ports_arg)
  /\ pc' = "start"
  /\ mpc' = "scan"
  /\ UNCHANGED <<inputs, env, sock, wc_hosts, candidates, crt_resp,
                 wildcard_ips, wc_try, findings, task, next_result, now,
                 wordlist, output, exit_code, out_file, irq, ports_arg, console>>

MayWrite_partial == pc \in {"collect", "done"}

\* the output of lines 287-319 comes after the call of line 275 has returned
MayWrite == pc = "done"

\* the file save_json or save_csv leaves behind, lines 227-244
Saved(fmt, fs) == [fmt |-> IF fmt = "csv" THEN "csv" ELSE "json", rows |-> fs]

\* lines 284-319; open raises on a path the process may not write.  The JSON
\* and CSV branches save before they print, the third prints and then saves
MainOutput ==
  /\ mpc = "scan"
  /\ MayWrite
  /\ IF output.path = None
     THEN /\ mpc' = "return"
          /\ console' = Append(console, "results")
          /\ UNCHANGED <<exit_code, out_file>>
     ELSE IF output.path[1]
          THEN /\ out_file' = Some(Saved(output.fmt, findings))
               /\ console' = IF output.fmt = "human"
                             THEN console \o <<"results", "saved">>
                             ELSE Append(console, "results")
               /\ mpc' = "return"
               /\ exit_code' = exit_code
          ELSE /\ mpc' = "exited"
               /\ exit_code' = Some(ExitUncaught)
               /\ console' = IF output.fmt = "human"
                             THEN Append(console, "results") ELSE console
               /\ out_file' = out_file
  /\ UNCHANGED <<inputs, env, sock, wc_hosts, ports, pc, candidates, crt_resp,
                 wildcard_ips, wc_try, findings, task, next_result, now,
                 wordlist, output, irq, ports_arg>>

\* lines 321 and 326
MainReturn ==
  /\ mpc = "return"
  /\ mpc' = "exited"
  /\ exit_code' = Some(ExitOK)
  /\ UNCHANGED <<inputs, env, sock, wc_hosts, ports, pc, candidates, crt_resp,
                 wildcard_ips, wc_try, findings, task, next_result, now,
                 wordlist, output, out_file, irq, ports_arg, console>>

\* an interrupt whose unwinding skips the finally clause of line 102
Interrupt_norestore ==
  /\ mpc \in {"load", "call", "scan", "return"}
  /\ irq' = Some([mpc |-> mpc, pc |-> pc])
  /\ mpc' = "exited"
  /\ exit_code' = Some(ExitInterrupted)
  /\ pc' = IF pc \in {"idle", "done"} THEN pc ELSE "aborted"
  /\ console' = Append(console, "interrupted")
  /\ UNCHANGED <<inputs, env, sock, wc_hosts, ports, candidates, crt_resp,
                 wildcard_ips, wc_try, findings, task, next_result, now,
                 wordlist, output, out_file, ports_arg>>

\* KeyboardInterrupt is raised in the main thread: no except Exception and no
\* suppress(Exception) catches it, the finally of line 102 runs if the with
\* block of line 108 is open, and lines 327-329 end the process
Interrupt ==
  /\ mpc \in {"load", "call", "scan", "return"}
  /\ irq' = Some([mpc |-> mpc, pc |-> pc])
  /\ mpc' = "exited"
  /\ exit_code' = Some(ExitInterrupted)
  /\ pc' = IF pc \in {"idle", "done"} THEN pc ELSE "aborted"
  /\ sock_timeout' = IF pc = "wc_loop" THEN sock_old ELSE sock_timeout
  /\ console' = Append(console, "interrupted")
  /\ UNCHANGED <<inputs, env, sock_old, wc_hosts, ports, candidates, crt_resp,
                 wildcard_ips, wc_try, findings, task, next_result, now,
                 wordlist, output, out_file, ports_arg>>

MaxLines == 3

\* lines of a word list file as iteration yields them
FileLines ==
  { <<"b", "\n">>, <<" ", "A", "\n">>, <<"\n">>, <<"#", "b", "\n">>,
    <<" ", "#", "a">> }

WordlistFile(ls) == Some([isfile |-> TRUE, readable |-> TRUE, lines |-> ls])

\* a path that names no regular file; a file open refuses to read
MissingFile == Some([isfile |-> FALSE, readable |-> FALSE, lines |-> <<>>])

UnreadableFile == Some([isfile |-> TRUE, readable |-> FALSE, lines |-> <<>>])

\* no name resolves
NoDns == [h \in CandHosts |-> <<>>]

\* the process has parsed its arguments, line 267; wls: the word lists tried,
\* pas: the --ports texts, socks: the socket default timeouts found
InitProc(wls, pas, socks) ==
  /\ words = <<>>
  /\ threads = DefaultThreads
  /\ use_passive \in BOOLEAN
  /\ probe \in BOOLEAN
  /\ ports = <<>>
  /\ ports_arg \in pas
  /\ console = <<>>
  /\ accepts_timeout \in BOOLEAN
  /\ dns \in IF accepts_timeout THEN {FullDns, NoDns} ELSE {FullDns}
  /\ requests = Some("requests")
  /\ pc = "idle"
  /\ candidates = <<>>
  /\ crt_resp = None
  /\ wildcard_ips = {}
  /\ wc_try = 0
  /\ findings = <<>>
  /\ task = <<>>
  /\ next_result = 1
  /\ now = 0
  /\ sock_timeout \in socks
  /\ sock_old = None
  /\ wc_hosts = <<>>
  /\ wordlist \in wls
  /\ output \in [path : {None, Some(TRUE), Some(FALSE)},
                 fmt : {"json", "csv", "human"}]
  /\ mpc = "load"
  /\ exit_code = None
  /\ out_file = None
  /\ irq = None

MainWordlists ==
  {None, MissingFile, UnreadableFile, WordlistFile(<<>>),
   WordlistFile(<< <<"#", "b", "\n">>, <<"b", "\n">> >>)}

\* --ports 443
Ports443 == <<"4", "4", "3">>

InitMain == InitProc(MainWordlists, {Ports443}, {None})

NextMain ==
  \/ MainLoadWords
  \/ MainCall
  \/ Next
  \/ MainOutput
  \/ MainReturn
  \/ Interrupt

SpecMain == InitMain /\ [][NextMain]_vars

\* texts given to --ports: two ports, no digit, nothing, a bad piece and a
\* padded one
PortArgs ==
  { <<"8", "0", ",", "4", "4", "3">>, <<"x">>, <<>>,
    <<"x", ",", " ", "8", "0">> }

\* main over the configurations that can be in error
InitConfig ==
  /\ InitProc({None, MissingFile, UnreadableFile,
               WordlistFile(<< <<"b", "\n">> >>)}, PortArgs, {None})
  /\ probe
  /\ accepts_timeout
  /\ dns = FullDns
  /\ output = [path |-> None, fmt |-> "human"]

SpecConfig == InitConfig /\ [][NextMain]_vars

\* load_words alone, over word list files of up to MaxLines lines
WordsWordlists ==
  {None, MissingFile} \cup {WordlistFile(ls) : ls \in BoundedSeq(FileLines, MaxLines)}

InitWords ==
  /\ InitProc(WordsWordlists, {Ports443}, {None})
  /\ ~use_passive
  /\ ~probe
  /\ ~accepts_timeout
  /\ output = [path |-> None, fmt |-> "human"]

NextWords == MainLoadWords \/ MainCall \/ BuildCandidates

SpecWords == InitWords /\ [][NextWords]_vars


\* the Findings the program still holds of a scan: while the loop of line 209
\* runs, those in the list and those the futures hold; once line 215 has
\* returned, the with block has released the executor and its futures, the
\* locals are gone, and the returned list is all there is
Retained ==
  IF pc = "done" THEN Range(findings)
  ELSE Range(findings) \cup {task[i].res[1] : i \in {j \in DOMAIN task : task[j].res # None}}

\* ------------------------------------------------- reference: one whole scan
\* the probe answers the web server of a host gave in this scan
RespOf(h) ==
  LET I == {i \in DOMAIN task : candidates[i] = h}
  IN IF I = {} THEN None ELSE task[CHOOSE i \in I : TRUE].resp

\* lines 190-206 run without interruption
worker(host, resp) ==
  LET r == resolve_host(host)
      wc == IsWildcard(r.val, wildcard_ips)
      f == Finding(host, r.val, wc)
  IN IF r.exc THEN Exc
     ELSE IF r.val = <<>> THEN Ret(None)
     ELSE IF ShouldProbe(wc, probe)
          THEN Ret(Some(WithProbe(f, Probed(host, ports, resp))))
          ELSE Ret(Some(f))

\* lines 209-211 over a candidate list, one candidate after the other
RECURSIVE Collected(_)
Collected(cands) ==
  IF cands = <<>> THEN <<>>
  ELSE LET w == worker(Head(cands), RespOf(Head(cands))).val
       IN (IF Keep(w) THEN <<w[1]>> ELSE <<>>) \o Collected(Tail(cands))

\* lines 208-215 over a candidate list
ScanOf(cands) == SortByHost(Collected(cands))

\* ------------------------------------------------------------------ claims
\* the address list the resolver returned for candidate i
Addrs(i) == resolve_host(candidates[i]).val

HostCount(h) == Cardinality({k \in DOMAIN findings : findings[k].host = h})

\* C1: in the returned list there is no Finding for a candidate whose address
\* set is non-empty and contained in the wildcard address set
C1_WildcardContainment ==
  pc = "done" =>
    \A i \in DOMAIN candidates :
      (Addrs(i) # <<>> /\ Range(Addrs(i)) \subseteq wildcard_ips)
        => HostCount(candidates[i]) = 0

\* a scan has returned: one candidate's addresses were contained in the
\* wildcard set, and another candidate was kept
C1_Witness ==
  /\ pc = "done"
  /\ findings # <<>>
  /\ \E i \in DOMAIN candidates :
       /\ Addrs(i) # <<>>
       /\ Range(Addrs(i)) \subseteq wildcard_ips

\* C2: a candidate with a non-empty address set that is not contained in the
\* wildcard set (disjoint, partly overlapping, or the wildcard set is empty) is
\* in the returned list exactly once, with is_wildcard false
C2_NoFalseDrop ==
  pc = "done" =>
    \A i \in DOMAIN candidates :
      (Addrs(i) # <<>> /\
         (wildcard_ips = {} \/ ~(Range(Addrs(i)) \subseteq wildcard_ips)))
        => /\ HostCount(candidates[i]) = 1
           /\ \A k \in DOMAIN findings :
                findings[k].host = candidates[i] => ~findings[k].is_wildcard

\* a scan has returned a candidate whose addresses partly overlap the wildcard
\* set
C2_Witness ==
  /\ pc = "done"
  /\ \E i \in DOMAIN candidates :
       /\ Range(Addrs(i)) \cap wildcard_ips # {}
       /\ ~(Range(Addrs(i)) \subseteq wildcard_ips)
       /\ HostCount(candidates[i]) = 1

StrictlySorted(a) == \A k \in 1..(Len(a) - 1) : StrLess(a[k], a[k + 1])

\* the lookup of candidate i fails
LookupFails(i) == getaddrinfo(candidates[i], {"proto", "timeout"}).exc

\* C3: every Finding of the list has a non-empty, sorted, duplicate-free
\* address list; a candidate whose lookup fails gives no Finding, and the scan
\* does not end in an error
C3_AddressesAndSilentDrop ==
  /\ pc # "aborted"
  /\ \A k \in DOMAIN findings :
       findings[k].addresses # <<>> /\ StrictlySorted(findings[k].addresses)
  /\ pc = "done" =>
       \A i \in DOMAIN candidates :
         LookupFails(i) => HostCount(candidates[i]) = 0

\* a scan has returned a Finding with two addresses, and another candidate's
\* lookup failed
C3_Witness ==
  /\ pc = "done"
  /\ \E k \in DOMAIN findings : Len(findings[k].addresses) = 2
  /\ \E i \in DOMAIN candidates : LookupFails(i)

\* C4: the returned list is strictly ascending by host
C4_SortedByHost ==
  pc = "done" =>
    \A k \in 1..(Len(findings) - 1) :
      StrLess(findings[k].host, findings[k + 1].host)

\* a scan has returned two Findings whose candidates were submitted in
\* descending host order
C4_Witness ==
  /\ pc = "done"
  /\ Len(findings) >= 2
  /\ \E i, j \in DOMAIN candidates :
       /\ i < j
       /\ StrLess(candidates[j], candidates[i])
       /\ HostCount(candidates[i]) = 1
       /\ HostCount(candidates[j]) = 1


\* ------------------------------------------- candidate generation, wider words
\* longest word list of SpecCand
MaxCandWords == 4

\* words with case variants, surrounding blanks, nothing but blanks, nothing
CandWords == {<<"b">>, <<" ", "A">>, <<"a", " ">>, <<"B">>, <<" ">>, <<>>}

InitCand ==
  /\ words \in BoundedSeq(CandWords, MaxCandWords)
  /\ threads = DefaultThreads
  /\ use_passive \in BOOLEAN
  /\ probe = FALSE
  /\ ports \in PortLists
  /\ accepts_timeout = FALSE
  /\ dns = FullDns
  /\ requests \in {None, Some("requests")}
  /\ InitScan

\* lines 174-183: the scan up to the candidate list
NextCand == BuildCandidates \/ SkipPassive \/ QueryPassive

SpecCand == InitCand /\ [][NextCand]_vars

WordHost(w) == FQDN(lower(strip(w)), domain)

IsLabel(k) == strip(words[k]) # <<>>

WordHostSet == {WordHost(words[k]) : k \in {j \in DOMAIN words : IsLabel(j)}}

\* the first word that gives host h
FirstAt(h) ==
  CHOOSE k \in DOMAIN words :
    /\ IsLabel(k) /\ WordHost(words[k]) = h
    /\ \A j \in 1..(k - 1) : ~(IsLabel(j) /\ WordHost(words[j]) = h)

NoDup(s) == \A i, j \in DOMAIN s : i # j => s[i] # s[j]

\* C5: the candidates from the words are the distinct lower(strip(word)) + "." +
\* domain of the non-blank words, each once, in order of first occurrence;
\* after the passive names are merged the list has no duplicate and the
\* candidates from the words keep their positions
C5_DedupeFirstSeen ==
  pc # "start" =>
    LET n == Cardinality(WordHostSet)
    IN /\ Len(candidates) >= n
       /\ {candidates[i] : i \in 1..n} = WordHostSet
       /\ \A i, j \in 1..n :
            i < j => FirstAt(candidates[i]) < FirstAt(candidates[j])
       /\ NoDup(candidates)
       /\ pc = "passive" => Len(candidates) = n

\* passive names were merged into candidates from a word list with a blank
\* word and two words for one host
C5_Witness ==
  /\ pc = "wildcard"
  /\ Len(candidates) > Cardinality(WordHostSet)
  /\ Cardinality(WordHostSet) = 2
  /\ \E k \in DOMAIN words : ~IsLabel(k)
  /\ \E j, k \in DOMAIN words :
       j # k /\ words[j] # words[k] /\ IsLabel(j) /\ IsLabel(k)
         /\ WordHost(words[j]) = WordHost(words[k])

\* ---------------------------------------------------------- claims, continued
\* the crt.sh query of this scan gave no names: no requests module, the request
\* raised, a status other than 200, a body that is not JSON, or a row that
\* raises
PassiveFailed ==
  /\ use_passive
  /\ pc \notin {"start", "passive"}
  /\ \/ crt_resp = None
     \/ crt_resp[1].exc
     \/ crt_resp[1].status # StatusOK
     \/ crt_resp[1].json = None
     \/ \E k \in DOMAIN crt_resp[1].json[1] : crt_resp[1].json[1][k] = None

\* C6: a scan whose passive source fails returns the list that the scan with
\* the passive source disabled returns for the same words and answers: in both
\* the list is the scan of the candidates from the words alone
C6_PassiveFailureIsolation ==
  (pc = "done" /\ (~use_passive \/ PassiveFailed))
    => findings = ScanOf(dedupe(WordCandidates(domain, words)))

\* a scan whose crt.sh query answered with a failure has returned a Finding
C6_Witness ==
  /\ pc = "done"
  /\ PassiveFailed
  /\ crt_resp # None
  /\ findings # <<>>

Unprobed(f) ==
  /\ f.http_open = None /\ f.http_status = None
  /\ f.https_open = None /\ f.https_status = None

\* C7: with probing disabled no worker ever calls the prober, and every
\* Finding has its four probe fields absent
C7_ProbeIndependence ==
  ~probe =>
    /\ \A i \in DOMAIN task : task[i].st # "probing" /\ task[i].resp = None
    /\ \A i \in DOMAIN task : task[i].res # None => Unprobed(task[i].res[1])
    /\ \A k \in DOMAIN findings : Unprobed(findings[k])

\* a scan without probing has returned a Finding, with the HTTP client there
C7_Witness ==
  /\ pc = "done"
  /\ ~probe
  /\ requests # None
  /\ findings # <<>>

\* every request of the probe of candidate i raised
ProbeFailed(i) ==
  /\ task[i].st = "done"
  /\ task[i].resp # None
  /\ \A key \in DOMAIN task[i].resp[1] : task[i].resp[1][key] = None

\* the candidates without those at the indexes in D
Without(D) ==
  SelectSeq(candidates,
            LAMBDA h : \A i \in D : candidates[i] # h)

\* C8 as claimed: no failure aborts the scan, and the list is that of the scan
\* without the candidates whose lookup or probe failed
C8_Original ==
  /\ pc # "aborted"
  /\ pc = "done" =>
       findings =
         ScanOf(Without({i \in DOMAIN candidates : LookupFails(i) \/ ProbeFailed(i)}))

\* C8 amended: no failure aborts the scan; the list is that of the scan without
\* the candidates whose lookup failed; a candidate whose probe failed is in the
\* list, with its probe fields absent
C8_FailureIsolation ==
  /\ pc # "aborted"
  /\ pc = "done" =>
       /\ findings = ScanOf(Without({i \in DOMAIN candidates : LookupFails(i)}))
       /\ \A i \in DOMAIN candidates :
            ProbeFailed(i) =>
              \E k \in DOMAIN findings :
                findings[k].host = candidates[i] /\ Unprobed(findings[k])

\* a scan has returned with one candidate whose lookup failed, one whose probe
\* failed and one whose probe got an answer
C8_Witness ==
  /\ pc = "done"
  /\ \E i \in DOMAIN candidates : LookupFails(i)
  /\ \E i \in DOMAIN candidates : ProbeFailed(i)
  /\ \E k \in DOMAIN findings : findings[k].https_open = Some(TRUE)


\* ------------------------------------------------------- the scan and the clock
InitClock ==
  /\ words \in BoundedSeq(Words, MaxWords)
  /\ threads = DefaultThreads
  /\ use_passive \in BOOLEAN
  /\ probe \in BOOLEAN
  /\ ports \in PortLists
  /\ accepts_timeout = TRUE
  /\ dns = FullDns
  /\ requests \in {None, Some("requests")}
  /\ InitScan

NextClock == Next \/ Tick

SpecClock == InitClock /\ [][NextClock]_vars

\* C9 as claimed, with the deadline at the last instant of the clock: once it
\* has expired no queued candidate is dispatched
C9_Original ==
  [][now >= MaxTime =>
       \A i \in DOMAIN task :
         (i \in DOMAIN task' /\ task[i].st = "queued") => task'[i].st = "queued"]_vars

\* C9 amended: there is no deadline; the scan returns only when every
\* candidate's task has finished and its result has been collected
C9_NoDeadline ==
  pc = "done" =>
    /\ Len(task) = Len(candidates)
    /\ next_result = Len(task) + 1
    /\ \A i \in DOMAIN task : task[i].st = "done" /\ ~task[i].exc

\* a scan has returned a Finding after dispatching a candidate at the last
\* instant of the clock
C9_Witness ==
  /\ pc = "done"
  /\ findings # <<>>
  /\ \E i \in DOMAIN task : task[i].t0 = MaxTime

\* ------------------------------------------------ more candidates than threads
\* longest word list of SpecPool
MaxPoolWords == 6

\* the k-th word: k letters
PoolWord(k) == [i \in 1..k |-> "a"]

ThreadChoices == {-1, 0, MinWorkers + 1}

PoolDns ==
  [h \in {FQDN(PoolWord(k), domain) : k \in 1..MaxPoolWords} |-> <<IP9>>] @@
  (FQDN(LabelX, domain) :> <<>>) @@ (FQDN(LabelY, domain) :> <<>>)

InitPool ==
  /\ \E n \in 0..MaxPoolWords : words = [k \in 1..n |-> PoolWord(k)]
  /\ threads \in ThreadChoices
  /\ use_passive \in BOOLEAN
  /\ probe \in BOOLEAN
  /\ ports \in PortLists
  /\ accepts_timeout = TRUE
  /\ dns = PoolDns
  /\ requests = None
  /\ InitScan

SpecPool == InitPool /\ [][Next]_vars

\* most hosts a word list names do not exist
MaxLiveHosts == 3

\* the zone of SpecLive: the first MaxLiveHosts words name a host
LiveDns ==
  [h \in {FQDN(PoolWord(k), domain) : k \in 1..MaxPoolWords} |->
     IF Len(h) <= MaxLiveHosts + 1 + Len(domain) THEN <<IP9>> ELSE <<>>] @@
  (FQDN(LabelX, domain) :> <<>>) @@ (FQDN(LabelY, domain) :> <<>>)

InitLive ==
  /\ \E n \in 0..MaxPoolWords : words = [k \in 1..n |-> PoolWord(k)]
  /\ threads \in ThreadChoices
  /\ use_passive \in BOOLEAN
  /\ probe \in BOOLEAN
  /\ ports \in PortLists
  /\ accepts_timeout \in BOOLEAN
  /\ dns = LiveDns
  /\ requests = None
  /\ InitScan

\* the same scans when no thread stops for good while it has a step to take:
\* the scheduler runs each pool thread and the calling thread again, and
\* every getaddrinfo and requests.head call returns or raises.  No step of the
\* scan can be taken twice, so this fairness on Next is fairness for each
SpecLive == InitLive /\ [][Next]_vars /\ WF_vars(Next)

\* C10: the candidates being processed are never more than max(4, threads),
\* and the pool size is at least 4
C10_BoundedPool ==
  /\ Cardinality(InFlight) <= (IF threads > MinWorkers THEN threads ELSE MinWorkers)
  /\ PoolSize(threads) >= MinWorkers

\* with no thread asked for, four candidates are in progress and one waits
C10_Witness ==
  /\ threads <= 0
  /\ Cardinality(InFlight) = MinWorkers
  /\ \E i \in DOMAIN task : task[i].st = "queued"

\* ---------------------------------------------------------- claims on main
\* C11: main returns exit code 0 whenever the run is not interrupted by the
\* user: a process that has exited without a KeyboardInterrupt exited with 0,
\* whatever the word list file, the passive source and the resolver did.
C11_ExitZero ==
  (exit_code # None /\ irq = None) => exit_code = Some(ExitOK)

\* ---------------------------------------------- claims on the passive source
\* what from_crtsh was given is one of the failures of lines 121-137
CrtFailure(resp) ==
  \/ resp = None
  \/ resp[1].exc
  \/ resp[1].status # StatusOK
  \/ resp[1].json = None
  \/ \E k \in DOMAIN resp[1].json[1] : resp[1].json[1][k] = None

\* C12: when the HTTP client is missing, the request raises, the status is not
\* 200 or the body is not the expected JSON, from_crtsh returns the empty list
\* and the scan goes on to wildcard detection with the candidates made from
\* the words alone.
C12_CrtFailSoft ==
  (pc = "wildcard" /\ use_passive /\ CrtFailure(crt_resp)) =>
    /\ Passive(crt_resp) = <<>>
    /\ candidates = dedupe(WordCandidates(domain, words))

\* crt.sh answered 200 with an array whose second row is malformed, after a
\* first row naming a host of the domain; the scan has moved on with the words
C12_Witness ==
  /\ pc = "wildcard"
  /\ use_passive
  /\ crt_resp # None
  /\ ~crt_resp[1].exc
  /\ crt_resp[1].status = StatusOK
  /\ crt_resp[1].json # None
  /\ crt_resp[1].json[1] # <<>>
  /\ crt_resp[1].json[1][1] # None
  /\ CrtFailure(crt_resp)
  /\ candidates # <<>>

\* ------------------------------------------------------ claims on the prober
\* the run of probe_http a worker made for candidate i, with its requests
TraceOf(i) == ProbeTrace(ports, 1, None, None, task[i].resp[1], <<>>)

\* the worker of candidate i has called probe_http with the client present
ProbedTask(i) == task[i].st = "done" /\ task[i].resp # None

Succeeded(i, e) == task[i].resp[1][<<e.proto, e.port>>] # None

\* request a comes before request b in the order the claim fixes
Before(a, b) ==
  a.k < b.k \/ (a.k = b.k /\ a.proto = "https" /\ b.proto = "http")

\* the result probe_http returned for a protocol, read from the Finding
ResultIn(f, proto) ==
  IF proto = "http" THEN <<f.http_open, f.http_status>>
  ELSE <<f.https_open, f.https_status>>

\* C13: the prober visits ports in list order and at each port tries HTTPS
\* before HTTP; it asks for every protocol that has no result yet at every
\* port up to the one where both have a result, and nowhere after; once a
\* request of a protocol succeeds no further request of that protocol is made;
\* a protocol's result is the status of its first successful request.
C13_ProbeOrder ==
  \A i \in DOMAIN task : ProbedTask(i) =>
    LET t == TraceOf(i)
        log == t.log
        f == task[i].res[1]
        Won(proto) == {a \in DOMAIN log : log[a].proto = proto /\ Succeeded(i, log[a])}
        Both(k) == \A proto \in Protos : \E a \in Won(proto) : log[a].k <= k
    IN /\ \A a, b \in DOMAIN log : a < b => Before(log[a], log[b])
       /\ \A a, b \in DOMAIN log :
            (a < b /\ Succeeded(i, log[a])) => log[b].proto # log[a].proto
       /\ \A k \in DOMAIN ports : \A proto \in Protos :
            (\E a \in DOMAIN log : log[a] = Request(proto, k, ports[k]))
              <=> /\ ~\E a \in Won(proto) : log[a].k < k
                  /\ ~\E j \in 1..(k - 1) : Both(j)
       /\ \A proto \in Protos :
            ResultIn(f, proto) =
              IF Won(proto) = {} THEN <<None, None>>
              ELSE LET a == CHOOSE x \in Won(proto) : \A y \in Won(proto) : x <= y
                   IN <<Some(TRUE), task[i].resp[1][<<proto, log[a].port>>]>>

\* a probe over two ports made three requests: HTTPS succeeded at the first
\* port, HTTP failed there and succeeded at the second
C13_Witness ==
  \E i \in DOMAIN task :
    /\ ProbedTask(i)
    /\ Len(ports) = 2
    /\ TraceOf(i).log =
         << Request("https", 1, ports[1]), Request("http", 1, ports[1]),
            Request("http", 2, ports[2]) >>
    /\ task[i].res[1].http_open = Some(TRUE)
    /\ task[i].res[1].https_open = Some(TRUE)

\* the worker of candidate i has called probe_http, with or without the client
ProbeCalled(i) ==
  /\ task[i].st = "done"
  /\ task[i].res # None
  /\ ShouldProbe(task[i].res[1].is_wildcard, probe)

\* the open flag is absent or true, and the status is there exactly with it
FlagsSound(f) ==
  \A proto \in Protos :
    /\ ResultIn(f, proto)[1] \in {None, Some(TRUE)}
    /\ ResultIn(f, proto)[2] # None <=> ResultIn(f, proto)[1] = Some(TRUE)

\* C14: in every Finding an open flag is absent or true and its status is
\* present exactly when the flag is true; without the HTTP client all four
\* probe fields stay absent; a request that raises is followed by the request
\* of the same protocol at the next port; a protocol whose requests all
\* raised stays absent.
C14_ProbeFailureAbsent ==
  /\ \A k \in DOMAIN findings : FlagsSound(findings[k])
  /\ \A i \in DOMAIN task :
       /\ task[i].res # None => FlagsSound(task[i].res[1])
       /\ (ProbeCalled(i) /\ requests = None) => Unprobed(task[i].res[1])
       /\ ProbedTask(i) =>
            LET log == TraceOf(i).log
            IN /\ \A a \in DOMAIN log :
                    (~Succeeded(i, log[a]) /\ log[a].k < Len(ports)) =>
                      \E b \in DOMAIN log :
                        log[b] = Request(log[a].proto, log[a].k + 1,
                                         ports[log[a].k + 1])
               /\ \A proto \in Protos :
                    (\A k \in DOMAIN ports :
                       task[i].resp[1][<<proto, ports[k]>>] = None)
                      => ResultIn(task[i].res[1], proto) = <<None, None>>

\* every HTTPS request of a probe over two ports raised, and so did the HTTP
\* request at the first port; the Finding is returned with HTTP open only
C14_Witness ==
  \E k \in DOMAIN findings : \E i \in DOMAIN task :
    /\ ProbedTask(i)
    /\ Len(ports) = 2
    /\ task[i].res[1] = findings[k]
    /\ Len(TraceOf(i).log) = 4
    /\ findings[k].https_open = None /\ findings[k].https_status = None
    /\ findings[k].http_open = Some(TRUE) /\ findings[k].http_status = Some(StatusOK)
    /\ task[i].resp[1][<<"http", ports[1]>>] = None

\* ---------------------------------------------------- claims on the resolver
\* what the system resolver holds for a name
Answer(h) == IF h \in DOMAIN dns THEN dns[h] ELSE <<>>

\* C15: for a host the system resolver answers for, resolve_host returns the
\* addresses of that answer as a non-empty, sorted, duplicate-free list, and
\* it returns the empty list only when the lookup itself fails: a worker whose
\* resolve_host call has returned holds a Finding with exactly those addresses
\* when the resolver has an answer for its host, and none only when it has not.
C15_ResolverContract ==
  \A i \in DOMAIN task : task[i].st \in {"probing", "done"} =>
    IF Answer(candidates[i]) # <<>>
    THEN /\ task[i].res # None
         /\ task[i].res[1].addresses = sorted(Range(Answer(candidates[i])))
         /\ StrictlySorted(task[i].res[1].addresses)
    ELSE task[i].res = None

\* ------------------------------------------------- claims on the word list
\* the lines of the file args.wordlist names
Lines == wordlist[1].lines

\* a line that is blank once trimmed, or that begins with "#"
Ignored(line) == strip(line) = <<>> \/ Head(line) = "#"

KeptLines == {k \in DOMAIN Lines : ~Ignored(Lines[k])}

\* the place of kept line k among the kept lines
Rank(k) == Cardinality({m \in KeptLines : m <= k})

\* C16: for a readable word list file load_words returns exactly the trimmed
\* text of the lines that are not blank and do not begin with "#", in file
\* order; a blank line or a line beginning with "#" gives no label and no
\* candidate host.
C16_WordlistParsing ==
  (mpc \in {"call", "scan"} /\ wordlist # None
     /\ wordlist[1].isfile /\ wordlist[1].readable) =>
    /\ Len(words) = Cardinality(KeptLines)
    /\ \A k \in KeptLines : words[Rank(k)] = strip(Lines[k])
    /\ pc = "passive" =>
         Range(candidates) =
           {FQDN(lower(strip(Lines[k])), domain) : k \in KeptLines}

\* a file of a comment line, a blank line and the line " A" was read: the one
\* word is "A" and the one candidate a.d
C16_Witness ==
  /\ pc = "passive"
  /\ wordlist # None
  /\ wordlist[1].isfile /\ wordlist[1].readable
  /\ Len(Lines) = 3
  /\ Lines[1] = <<"#", "b", "\n">>
  /\ Lines[2] = <<"\n">>
  /\ Lines[3] = <<" ", "A", "\n">>
  /\ words = << <<"A">> >>
  /\ candidates = << <<"a", ".", "d">> >>

\* ---------------------------------------------------- claims on interrupts
\* the interrupt came while enumerate_subdomains had not yet returned
InterruptedEarly == irq # None /\ irq[1].pc # "done"

\* C17: when KeyboardInterrupt is raised before enumerate_subdomains has
\* returned, the process exits with status 130 and this run has written no
\* output file.
C17_InterruptNoOutput ==
  InterruptedEarly => (exit_code = Some(ExitInterrupted) /\ out_file = None)

\* the run was given a writable output path and was interrupted while the
\* result loop had already collected a Finding; it exited with 130
C17_Witness ==
  /\ InterruptedEarly
  /\ irq[1].pc = "collect"
  /\ output.path = Some(TRUE)
  /\ findings # <<>>
  /\ exit_code = Some(ExitInterrupted)
  /\ out_file = None

\* -------------------------------------------------- claims on shared state
\* C18: while a worker task runs the process-wide socket timeout has the value
\* it had before the scan; it differs from that value only inside the loop of
\* detect_wildcard, during which no future has been submitted; and every
\* resolve_host and probe_http call a worker has under way was given its own
\* timeout argument.
C18_NoSharedTimeout ==
  /\ InFlight # {} => (sock_timeout = sock_old /\ pc \notin {"wildcard", "wc_loop"})
  /\ sock_timeout # sock_old => pc = "wc_loop"
  /\ pc \in {"start", "passive", "wildcard", "wc_loop", "pool"} => task = <<>>
  /\ \A i \in InFlight :
       /\ task[i].st = "resolving" => task[i].tmo = Some(timeout)
       /\ task[i].st = "probing" => task[i].tmo = Some(ProbeTimeout)

\* two workers run, one in resolve_host and one in probe_http, after a
\* wildcard detection that had changed the default and set it back
C18_Witness ==
  /\ wc_try = WildcardTries
  /\ sock_timeout = None
  /\ \E i, j \in InFlight :
       task[i].st = "resolving" /\ task[j].st = "probing"

\* --------------------------------------------- claims on the work per host
\* the futures that have called resolve_host, and probe_http, for host h
ResolveCalls(h) ==
  {i \in DOMAIN task : candidates[i] = h /\ task[i].st # "queued"}

ProbeCalls(h) ==
  {i \in DOMAIN task : candidates[i] = h /\ (task[i].st = "probing" \/ ProbeCalled(i))}

\* the results of the first n futures that line 210 keeps, in order
RECURSIVE KeptResults(_)
KeptResults(n) ==
  IF n = 0 THEN <<>>
  ELSE IF Keep(task[n].res) THEN Append(KeptResults(n - 1), task[n].res[1])
       ELSE KeptResults(n - 1)

\* C19: in one scan at most one resolve_host call and at most one probe_http
\* call is made for a candidate host, and from the final sort on the returned
\* list stays the sorted list of the Findings the workers returned, through
\* the output and the exit of main.
C19_OncePerHost ==
  /\ \A h \in Range(candidates) :
       Cardinality(ResolveCalls(h)) <= 1 /\ Cardinality(ProbeCalls(h)) <= 1
  /\ pc = "done" => findings = SortByHost(KeptResults(Len(task)))

\* main has written the output and exited after a scan that resolved and
\* probed two hosts, one of them named by a word and by crt.sh
C19_Witness ==
  /\ pc = "done"
  /\ mpc = "exited"
  /\ out_file # None
  /\ Len(findings) = 2
  /\ \A k \in DOMAIN findings : findings[k].https_open = Some(TRUE)
  /\ crt_resp # None /\ ~CrtFailure(crt_resp)
  /\ words # <<>>

\* ------------------------------------------- claims on wildcard detection
\* string.ascii_lowercase, as far as Chars has it
AsciiLowercase == {c \in Chars : Code[c] \in 97..122}

\* a name made of LabelLen lowercase letters, a dot and the domain
RandomName(h) ==
  /\ Len(h) = LabelLen + 1 + Len(domain)
  /\ \A k \in 1..LabelLen : h[k] \in AsciiLowercase
  /\ SubSeq(h, LabelLen + 1, Len(h)) = <<".">> \o domain

\* C20: detect_wildcard resolves one name per iteration, tries names in all
\* when its loop has ended, each a label of 16 lowercase letters followed by
\* "." and the domain, and the set it holds, which it returns, is exactly the
\* union of the address lists resolve_host returned for those names: the empty
\* set when every resolution failed.
C20_DetectWildcard ==
  /\ pc = "wc_loop" =>
       /\ Len(wc_hosts) = wc_try
       /\ wc_try <= WildcardTries
       /\ \A k \in DOMAIN wc_hosts : RandomName(wc_hosts[k])
       /\ wildcard_ips =
            UNION {Range(resolve_host(wc_hosts[k]).val) : k \in DOMAIN wc_hosts}
  /\ pc \in {"pool", "collect", "done"} => wc_try = WildcardTries

\* the loop has ended after three resolutions of two different random names,
\* one answered with 9 and one with 10: the set to return is {9, 10}
C20_Witness ==
  /\ WildcardLoopDone
  /\ Len(wc_hosts) = WildcardTries
  /\ wc_hosts[1] # wc_hosts[2]
  /\ wildcard_ips = {IP9, IP10}

\* ------------------------------------------- claims on what the threads share
\* a step of one worker: the entry of one future changes, no other
WorkerStep ==
  /\ task # <<>>
  /\ task' # task

\* C21: the wildcard set is built in the one run of detect_wildcard's loop,
\* which starts from the empty set before any future exists, and no later step
\* changes it; a step of a worker changes the entry of its own future only,
\* and neither the wildcard set, the candidate list nor the findings list;
\* the findings list changes only in a step of the thread that collects, and
\* the candidate list only before wildcard detection.
C21_SharedState ==
  [][ /\ wildcard_ips' # wildcard_ips => (pc = "wc_loop" /\ task = <<>>)
      /\ (pc # "wc_loop" /\ pc' = "wc_loop") => (wildcard_ips = {} /\ wc_try = 0)
      /\ WorkerStep =>
           /\ DOMAIN task' = DOMAIN task
           /\ \E i \in DOMAIN task : \A j \in DOMAIN task \ {i} : task'[j] = task[j]
           /\ findings' = findings
           /\ wildcard_ips' = wildcard_ips
           /\ candidates' = candidates
      /\ findings' # findings => (task' = task /\ pc = "collect")
      /\ candidates' # candidates => pc \in {"start", "passive"}
    ]_vars

\* two workers run, a third candidate's Finding has been collected, and the
\* wildcard set they read is not empty
C21_Witness ==
  /\ Cardinality(InFlight) = 2
  /\ findings # <<>>
  /\ wildcard_ips # {}

\* ------------------------------------------------------ claims on the phases
\* the candidate list is complete: the words are in, and crt.sh has been asked
\* if it was to be
CandidatesBuilt ==
  /\ pc \notin {"start", "passive"}
  /\ use_passive => (crt_resp # None \/ requests = None)
  /\ candidates =
       dedupe(dedupe(WordCandidates(domain, words)) \o
              (IF use_passive THEN Passive(crt_resp) ELSE <<>>))

\* a worker has started on some candidate
WorkStarted == \E i \in DOMAIN task : task[i].st # "queued"

\* C22: when the first resolution task starts the candidate list is complete,
\* the passive query included, and wildcard detection has made all its tries
\* and returned; the list is sorted and returned only when every future has
\* finished and its result has been collected.
C22_PhaseOrder ==
  /\ WorkStarted =>
       /\ CandidatesBuilt
       /\ wc_try = WildcardTries
       /\ pc \notin {"wildcard", "wc_loop", "pool"}
       /\ Len(task) = Len(candidates)
  /\ pc = "done" =>
       /\ \A i \in DOMAIN task : task[i].st = "done"
       /\ next_result = Len(task) + 1

\* the scan has returned two Findings, one of a name only crt.sh gave, after a
\* wildcard detection that found an address
C22_Witness ==
  /\ pc = "done"
  /\ Len(findings) >= 2
  /\ crt_resp # None /\ ~CrtFailure(crt_resp)
  /\ wildcard_ips # {}
  /\ Len(task) = 3

\* ------------------------------------------------ claims on the hosts resolved
\* the names in the rows of a crt.sh response: the pieces of every name_value
\* between line breaks, trimmed and lowercased
RowNames(resp) ==
  IF resp = None \/ resp[1].json = None THEN {}
  ELSE LET rows == resp[1].json[1]
       IN UNION { {lower(strip(split(rows[k][1], "\n")[j])) :
                     j \in DOMAIN split(rows[k][1], "\n")} :
                  k \in {m \in DOMAIN rows : rows[m] # None} }

InDomain(h) == endswith(h, <<".">> \o domain) \/ h = domain

FromWord(h) ==
  \E k \in DOMAIN words : h = lower(strip(words[k])) \o <<".">> \o domain

FromPassive(h) == h \in RowNames(crt_resp) /\ InDomain(h)

\* C23: a host a worker has passed to resolve_host is the trimmed, lowercased
\* text of a word followed by "." and the domain, or a name of the crt.sh
\* response that ends with "." and the domain or is the domain; so is the host
\* of every Finding collected or returned.
C23_ResolvedHosts ==
  /\ \A i \in DOMAIN task :
       task[i].st # "queued" => (FromWord(candidates[i]) \/ FromPassive(candidates[i]))
  /\ \A k \in DOMAIN findings :
       FromWord(findings[k].host) \/ FromPassive(findings[k].host)

\* the returned list has a Finding of a host no word gives: crt.sh named it,
\* in a response that also names a host outside the domain
C23_Witness ==
  /\ pc = "done"
  /\ \E k \in DOMAIN findings :
       ~FromWord(findings[k].host) /\ FromPassive(findings[k].host)
  /\ \E h \in RowNames(crt_resp) : ~InDomain(h)
  /\ words # <<>>

\* ------------------------------------------------ claims on when probes run
\* probe_http has been called for candidate i: it is under way, or it has
\* returned
ProbeEntered(i) ==
  task[i].st = "probing" \/ (task[i].st = "done" /\ task[i].resp # None)

\* the result iterator has yielded the result of future i
Yielded(i) == i < next_result

\* C24: probe_http is called for a candidate only when probing is enabled and
\* the candidate resolved to a non-empty address list that is not classified
\* as wildcard; a future whose result the collector has taken has finished,
\* its probe included, so every Finding in the list comes from a finished
\* future and none from one that is still probing.
C24_ProbeGate ==
  /\ \A i \in DOMAIN task :
       /\ ProbeEntered(i) =>
            /\ probe
            /\ Addrs(i) # <<>>
            /\ ~IsWildcard(Addrs(i), wildcard_ips)
            /\ task[i].res # None /\ ~task[i].res[1].is_wildcard
       /\ task[i].st = "probing" => ~Yielded(i)
       /\ Yielded(i) => task[i].st = "done"
  /\ \A k \in DOMAIN findings :
       \E i \in DOMAIN task :
         /\ Yielded(i)
         /\ task[i].st = "done"
         /\ task[i].res = Some(findings[k])

\* the Finding of the first candidate has been collected with its probe
\* result, while the second candidate's probe is still under way and a third
\* candidate, whose addresses are all wildcard addresses, was not probed
C24_Witness ==
  /\ probe
  /\ Len(task) = 3
  /\ \E i, j, w \in DOMAIN task :
       /\ Yielded(i) /\ task[i].resp # None
       /\ task[i].res[1].https_open = Some(TRUE)
       /\ task[j].st = "probing"
       /\ task[w].st = "done" /\ task[w].res # None
       /\ task[w].res[1].is_wildcard /\ task[w].resp = None

\* ----------------------------------------------- claims on the configuration
\* the word list path was given and cannot be read
WordlistUnreadable ==
  wordlist # None /\ (~wordlist[1].isfile \/ ~wordlist[1].readable)

\* --ports holds no valid port number
PortsInvalid == ParsePorts(ports_arg) = <<>>

\* how many times main has reported a configuration error
ConfigReports ==
  Cardinality({k \in DOMAIN console : console[k] = "configuration error"})

\* C25: with a --ports text that holds no valid port, or a word list path that
\* cannot be read, main does not abort: the scan runs with the ports 80 and 443,
\* or with the built-in word list, and the error has been reported to the user
\* exactly once by the time the scan is called.
C25_ConfigFallback ==
  /\ (WordlistUnreadable /\ mpc # "load" /\ irq = None) =>
       (exit_code # Some(ExitUncaught) /\ words = DEFAULT_WORDS)
  /\ (PortsInvalid /\ mpc = "scan" /\ pc \notin {"start", "aborted"}) =>
       ports = <<HttpPort, HttpsPort>>
  /\ ((WordlistUnreadable \/ PortsInvalid) /\ mpc \in {"scan", "return"}) =>
       ConfigReports = 1

\* --------------------------------------------- claims on wildcard Findings
\* the futures whose worker classified its candidate as wildcard
WildcardTasks ==
  {i \in DOMAIN task : task[i].res # None /\ task[i].res[1].is_wildcard}

\* C26 as stated: once the scan has finished, a Finding classified as wildcard
\* is not in the returned list but is still held by the scan.
C26_Original ==
  pc = "done" =>
    \A i \in WildcardTasks :
      /\ task[i].res[1] \notin Range(findings)
      /\ task[i].res[1] \in Retained

\* C26 (amended): a Finding classified as wildcard is never put in the list,
\* and once the scan has finished nothing holds it: what remains of the scan
\* is the returned list, which has no Finding with is_wildcard true.
C26_WildcardDropped ==
  /\ \A i \in WildcardTasks : task[i].res[1] \notin Range(findings)
  /\ pc = "done" =>
       /\ \A f \in Retained : ~f.is_wildcard
       /\ \A i \in WildcardTasks : task[i].res[1] \notin Retained

\* a scan has returned a Finding and has dropped another, whose addresses were
\* all wildcard addresses
C26_Witness ==
  /\ pc = "done"
  /\ WildcardTasks # {}
  /\ findings # <<>>
  /\ \A i \in WildcardTasks : Yielded(i)

\* ------------------------------------------------ claims on the schedule
\* C27: the list a scan returns is the one list that the candidates, the
\* wildcard set and the answers the resolver and the web servers gave per host
\* determine: the Findings of the candidates taken one after the other, kept
\* by the filter and sorted by host.  It is the same whichever worker ran when
\* and whatever the size of the pool.
C27_ScheduleIndependence ==
  pc = "done" => findings = ScanOf(candidates)

\* a scan with a pool of four has returned six Findings: two candidates had to
\* wait for a free worker
C27_Witness ==
  /\ pc = "done"
  /\ PoolSize(threads) = MinWorkers
  /\ Len(findings) = MaxPoolWords

\* ------------------------------------------------------ claims on termination
\* every candidate has a future, every future has finished after one
\* resolve_host call for its host, and none is queued or in flight
AllResolvedOnce ==
  /\ Len(task) = Len(candidates)
  /\ \A i \in DOMAIN task : task[i].st = "done"
  /\ \A h \in Range(candidates) : Cardinality(ResolveCalls(h)) = 1
  /\ InFlight = {}

\* C28: when every call returns and no thread is starved the scan eventually
\* returns, and whenever it has returned every candidate has been resolved
\* exactly once, none skipped and none still in flight.
C28_Termination ==
  /\ <>(pc = "done")
  /\ [](pc = "done" => AllResolvedOnce)

\* a scan of six candidates over a pool of four has returned
C28_Witness ==
  /\ pc = "done"
  /\ AllResolvedOnce
  /\ Len(candidates) = MaxPoolWords
  /\ PoolSize(threads) = MinWorkers
  /\ next_result = MaxPoolWords + 1

\* ------------------------------------------- claims on the socket default
\* values socket.getdefaulttimeout() may return when the process starts
SockDefaults == {None, Some(0), Some(DefaultTimeout), Some(ProbeTimeout)}

\* the command line process started under every socket default
InitSock ==
  /\ InitProc({WordlistFile(<< <<"b", "\n">> >>)}, {Ports443}, SockDefaults)
  /\ dns = FullDns

SpecSock == InitSock /\ [][NextMain]_vars

\* C29: detect_wildcard saves the process-wide default socket timeout it finds
\* on entry, keeps that saved value for the length of the call, and on every
\* step that leaves the call, the normal return or an exception raised inside,
\* the default is again the value found on entry, whatever that value was
\* (None included).
C29_TimeoutRestored ==
  [][/\ (pc = "wildcard" /\ pc' = "wc_loop") => sock_old' = sock_timeout
     /\ (pc = "wc_loop" /\ pc' = "wc_loop") => sock_old' = sock_old
     /\ (pc = "wc_loop" /\ pc' # "wc_loop") => sock_timeout' = sock_old
     /\ pc \notin {"wildcard", "wc_loop"} => sock_timeout' = sock_timeout]_vars

\* KeyboardInterrupt was raised inside the loop of detect_wildcard after a
\* lookup, the default had been zero before the call and is zero again
C29_Witness ==
  /\ irq # None
  /\ irq[1].pc = "wc_loop"
  /\ wc_try >= 1
  /\ sock_old = Some(0)
  /\ sock_timeout = Some(0)

\* ------------------------------------------- claims on the passive source
\* crt.sh answered 200 with a JSON array: the record loop of from_crtsh ran
RowsProcessed ==
  /\ use_passive
  /\ pc \notin {"start", "passive"}
  /\ crt_resp # None
  /\ ~crt_resp[1].exc
  /\ crt_resp[1].status = StatusOK
  /\ crt_resp[1].json # None

\* a record whose processing raises: it is no object, or its name_value is no
\* string
RowRaises(resp) == \E k \in DOMAIN resp[1].json[1] : resp[1].json[1][k] = None

\* C30: from_crtsh is all-or-nothing. When the processing of any record of the
\* response raises, the result is the empty list, so the names of the records
\* before it are not returned and the candidates are those of the words alone;
\* otherwise the result is the sorted, duplicate-free list of every trimmed,
\* lowercased name that ends with "." + domain or equals domain.
C30_AllOrNothing ==
  RowsProcessed =>
    LET res == Passive(crt_resp)
    IN IF RowRaises(crt_resp)
       THEN /\ res = <<>>
            /\ Range(candidates) = WordHostSet
       ELSE /\ StrictlySorted(res)
            /\ Range(res) = {n \in RowNames(crt_resp) : InDomain(n)}
            /\ Range(res) \subseteq Range(candidates)

\* the first record named c.d, the second raised: c.d is not a candidate
C30_Witness ==
  /\ RowsProcessed
  /\ RowRaises(crt_resp)
  /\ crt_resp[1].json[1][1] = Some(<<"c", ".", "d">>)
  /\ Passive(crt_resp) = <<>>
  /\ <<"c", ".", "d">> \notin Range(candidates)
  /\ candidates # <<>>

====
